---- MODULE Spec2Model ----
(***************************************************************************)
(* Pairs-trading bot: the signal state machine (PairsTradingStrategy), the *)
(* two-leg execution pipeline (ExecutionEngine, OrderManager,              *)
(* PositionManager) and the polling loop that joins them (PairsTradingBot).*)
(*                                                                         *)
(* Units.  z-scores are carried in tenths (2.0 is 20), correlations in     *)
(* hundredths (0.8 is 80).  Prices, balances and timestamps are integers.  *)
(* Quantities and PnL are exact rationals <<n, d>> in lowest terms, d > 0. *)
(* Python's None is the empty tuple; an optional value v is <<v>>.         *)
(* A dict is a function whose DOMAIN is its set of keys.                   *)
(***************************************************************************)
EXTENDS Integers, Sequences, FiniteSets, TLC

VARIABLES
    pair_states,   \* PairsTradingStrategy.pair_states : pair_name -> dict
    positions,     \* PositionManager.positions        : pair_name -> Position
    orders,        \* OrderManager.orders (order n has id n; Len = _order_counter)
    now,           \* the clock: get_current_timestamp() returns it, and it moves on
    pc,            \* where the caller stands
    cur,           \* the pair being processed
    signal,        \* the signal last returned by calculate_signals / passed to execute_signal
    frame,         \* the locals of the call in progress (execute_signal, or a function called on its own)
    result,        \* what the last call returned
    last,          \* the ledger call made by the execute_signal in progress, and its return
    exchange,      \* the exchange the engine was constructed on
    config,        \* the strategy configuration the components were constructed from
    tickers        \* the tickers the execute_signal call in progress looked up

vars == <<pair_states, positions, orders, now, pc, cur, signal, frame, result, last,
          exchange, config, tickers>>

----------------------------------------------------------------------------
(* Bounds *)

MaxOrders == 2     \* orders created in one behaviour
MaxCalls == 4      \* calls made on the ledger on its own in one behaviour

----------------------------------------------------------------------------
(* Values *)

None == <<>>
Some(v) == <<v>>
Get(d, k, default) == IF k \in DOMAIN d THEN d[k] ELSE default
DictUpdate(d, u) == [k \in DOMAIN d \cup DOMAIN u |-> IF k \in DOMAIN u THEN u[k] ELSE d[k]]
DictSet(d, k, v) == [j \in DOMAIN d \cup {k} |-> IF j = k THEN v ELSE d[j]]

Abs(x) == IF x < 0 THEN -x ELSE x

RECURSIVE GCD(_, _)
GCD(a, b) == IF b = 0 THEN a ELSE GCD(b, a % b)

Rat(n, d) ==
    LET g == GCD(Abs(n), Abs(d))
        s == IF d < 0 THEN -1 ELSE 1
    IN  <<(s * n) \div g, (s * d) \div g>>
RInt(n) == <<n, 1>>
RZero == RInt(0)
RNeg(x) == <<-x[1], x[2]>>
RAbs(x) == <<Abs(x[1]), x[2]>>
RMul(x, y) == Rat(x[1] * y[1], x[2] * y[2])
RAdd(x, y) == Rat(x[1] * y[2] + y[1] * x[2], x[2] * y[2])
RDiv(x, y) == Rat(x[1] * y[2], x[2] * y[1])
RGt(x, y) == x[1] * y[2] > y[1] * x[2]
RMin(x, y) == IF RGt(x, y) THEN y ELSE x

----------------------------------------------------------------------------
(* Configuration *)

Pairs == {"P1", "P2"}
PairOrder == <<"P1", "P2">>

\* The entries of pairs_config.yaml: the two symbols each pair trades.
PairConfig ==
    [P1 |-> [asset1 |-> "BTC/USDT", asset2 |-> "ETH/USDT"],
     P2 |-> [asset1 |-> "SOL/USDT", asset2 |-> "ETH/USDT"]]

\* The 'pairs_trading' section of the strategy configuration with the defaults
\* of the two constructors filled in.
DefaultConfig ==
    [z_entry_threshold |-> 20, z_exit_threshold |-> 5,
     correlation_threshold |-> 80, stop_loss_z |-> 30,
     position_size |-> Rat(1, 10), max_position |-> Rat(2, 10)]

\* The attributes the constructors copy from the configuration.
z_entry_threshold == config.z_entry_threshold
z_exit_threshold == config.z_exit_threshold
correlation_threshold == config.correlation_threshold
stop_loss_z == config.stop_loss_z
position_size == config.position_size
max_position_size == config.max_position

----------------------------------------------------------------------------
(* RiskManager *)

\* A stop that looks at the distance from zero only, on either side.
check_stop_loss_Symmetric(current_zscore, entry_zscore) ==
    entry_zscore # 0 /\ Abs(current_zscore) > stop_loss_z

\* risk_management.py check_stop_loss: direction-aware stop on the entry side.
check_stop_loss(current_zscore, entry_zscore) ==
    IF entry_zscore > 0 THEN current_zscore > stop_loss_z
    ELSE IF entry_zscore < 0 THEN current_zscore < -stop_loss_z
    ELSE FALSE

\* risk_management.py calculate_position_size with base_position_size omitted.
calculate_position_size(account_balance) ==
    RMin(RMul(RInt(account_balance), position_size),
         RMul(RInt(account_balance), max_position_size))

----------------------------------------------------------------------------
(* PairsTradingStrategy *)

\* What validate_data, the data lookup and prepare_pair_data make of the
\* history handed in: "ok", or the early return taken.
DataKinds == {"ok", "invalid_data", "missing_prices", "alignment_failed"}

\* The pair statistics calculate_pair_statistics returns on a full window.
\* spread_mean and spread_std are copied into the state and the metadata and
\* read by nothing; they are left out.
StatsOf(z, c, h, co) ==
    [hedge_ratio |-> h, correlation |-> c, is_cointegrated |-> co, current_zscore |-> z]

MkSignal(s, q1, q2, z, meta) ==
    [signal |-> s, quantity1 |-> q1, quantity2 |-> q2, zscore |-> z, metadata |-> meta]

\* An update that writes the statistics into the state of every known pair.
update_pair_state_Shared(ps, pair_name, stats) ==
    LET old(p) == IF p \in DOMAIN ps THEN ps[p] ELSE [position |-> None]
    IN  [p \in DOMAIN ps \cup {pair_name} |-> DictUpdate(old(p), stats)]

\* pairs_trading.py _update_pair_state
update_pair_state(ps, pair_name, stats) ==
    LET old == IF pair_name \in DOMAIN ps THEN ps[pair_name] ELSE [position |-> None]
    IN  DictSet(ps, pair_name, DictUpdate(old, stats))

\* EntryRule with the thresholds included in the entry zones.
EntryRule_Inclusive(state, current_zscore) ==
    IF current_zscore >= z_entry_threshold
    THEN [signal |-> "sell_spread", quantity1 |-> RInt(1),
          quantity2 |-> RNeg(RInt(state.hedge_ratio))]
    ELSE IF current_zscore <= -z_entry_threshold
    THEN [signal |-> "buy_spread", quantity1 |-> RNeg(RInt(1)),
          quantity2 |-> RInt(state.hedge_ratio)]
    ELSE [signal |-> "hold", quantity1 |-> RZero, quantity2 |-> RZero]

\* The entry branch of calculate_signals (current_position is None).
EntryRule(state, current_zscore) ==
    IF current_zscore > z_entry_threshold
    THEN [signal |-> "sell_spread", quantity1 |-> RInt(1),
          quantity2 |-> RNeg(RInt(state.hedge_ratio))]
    ELSE IF current_zscore < -z_entry_threshold
    THEN [signal |-> "buy_spread", quantity1 |-> RNeg(RInt(1)),
          quantity2 |-> RInt(state.hedge_ratio)]
    ELSE [signal |-> "hold", quantity1 |-> RZero, quantity2 |-> RZero]

\* The exit branch of calculate_signals (a position is held).
ExitRule(current_position, current_zscore) ==
    LET entry_zscore == Get(current_position, "entry_zscore", 0)
        closing == [signal |-> "close",
                    quantity1 |-> RNeg(Get(current_position, "quantity1", RZero)),
                    quantity2 |-> RNeg(Get(current_position, "quantity2", RZero))]
    IN  IF check_stop_loss(current_zscore, entry_zscore) THEN closing
        ELSE IF Abs(current_zscore) < z_exit_threshold THEN closing
        ELSE [signal |-> "hold", quantity1 |-> RZero, quantity2 |-> RZero]

\* The correlation gate left open: no call returns at the gate.
CorrelationGate_Off(state) == FALSE

\* The correlation gate of calculate_signals: TRUE when the call returns here.
CorrelationGate(state) == state.correlation < correlation_threshold

\* A gate that gives up a held position: 'close' with its quantities negated.
GateSignal_Closing(state, current_zscore) ==
    LET current_position == Get(state, "position", None)
        meta == [correlation |-> state.correlation, reason |-> "low_correlation"]
    IN  IF current_position = None
        THEN MkSignal("hold", RZero, RZero, current_zscore, meta)
        ELSE MkSignal("close", RNeg(current_position[1].quantity1),
                      RNeg(current_position[1].quantity2), current_zscore, meta)

\* The signal the call returns at the gate, whatever position is held.
GateSignal(state, current_zscore) ==
    MkSignal("hold", RZero, RZero, current_zscore,
             [correlation |-> state.correlation, reason |-> "low_correlation"])

\* An early return that drops what the pair had cached, its position included.
EarlyReturn_Resetting(ps, pair_name, data) ==
    [pair_states |-> DictSet(ps, pair_name, [position |-> None]),
     signal |-> MkSignal("hold", RZero, RZero, 0, [error |-> data])]

\* The three early returns of calculate_signals (data failed validate_data, a
\* series is missing, the aligned history is shorter than lookback_period):
\* they come before _update_pair_state and touch nothing.
EarlyReturn(ps, pair_name, data) ==
    [pair_states |-> ps,
     signal |-> MkSignal("hold", RZero, RZero, 0, [error |-> data])]

\* A cointegration test that blocks: the call returns when the test failed.
CointegrationGate_Blocking(state) == ~state.is_cointegrated

\* The cointegration test of calculate_signals: TRUE when the call returns
\* here.  A failed test is logged and the call goes on.
CointegrationGate(state) == FALSE

\* pairs_trading.py calculate_signals: the new pair_states and the signal returned.
calculate_signals(ps, pair_name, data, stats) ==
    IF data # "ok"
    THEN EarlyReturn(ps, pair_name, data)
    ELSE
        LET ps2 == update_pair_state(ps, pair_name, stats)
            state == ps2[pair_name]
            current_zscore == state.current_zscore
            current_position == Get(state, "position", None)
            meta == [correlation |-> state.correlation,
                     hedge_ratio |-> state.hedge_ratio,
                     is_cointegrated |-> state.is_cointegrated]
            rule == IF current_position = None
                    THEN EntryRule(state, current_zscore)
                    ELSE ExitRule(current_position[1], current_zscore)
        IN  IF CorrelationGate(state)
            THEN [pair_states |-> ps2, signal |-> GateSignal(state, current_zscore)]
            ELSE IF CointegrationGate(state)
            THEN [pair_states |-> ps2,
                  signal |-> MkSignal("hold", RZero, RZero, current_zscore, meta)]
            ELSE [pair_states |-> ps2,
                  signal |-> MkSignal(rule.signal, rule.quantity1, rule.quantity2,
                                current_zscore, meta)]

\* pairs_trading.py update_position
update_position(ps, pair_name, sig, quantity1, quantity2, zscore) ==
    LET ps1 == IF pair_name \in DOMAIN ps THEN ps ELSE DictSet(ps, pair_name, <<>>)
    IN  IF sig \in {"buy_spread", "sell_spread"}
        THEN DictSet(ps1, pair_name,
                 DictSet(ps1[pair_name], "position",
                     Some([quantity1 |-> quantity1, quantity2 |-> quantity2,
                           entry_zscore |-> zscore])))
        ELSE IF sig = "close"
        THEN DictSet(ps1, pair_name, DictSet(ps1[pair_name], "position", None))
        ELSE ps1

----------------------------------------------------------------------------
(* PositionManager *)

\* position_manager.py Position.__init__
NewPosition(pair_name, asset1, asset2, quantity1, quantity2, entry_zscore, entry_price1, entry_price2, t) ==
    [pair_name |-> pair_name, asset1 |-> asset1, asset2 |-> asset2,
     quantity1 |-> quantity1, quantity2 |-> quantity2,
     entry_zscore |-> entry_zscore,
     entry_price1 |-> entry_price1, entry_price2 |-> entry_price2,
     entry_timestamp |-> t, exit_timestamp |-> None,
     exit_price1 |-> None, exit_price2 |-> None,
     pnl |-> RZero, is_closed |-> FALSE]

\* Position.close with the size of each leg in place of its signed quantity.
PositionClose_Unsigned(position, exit_price1, exit_price2, t) ==
    LET marked == [position EXCEPT !.exit_price1 = exit_price1,
                                   !.exit_price2 = exit_price2,
                                   !.exit_timestamp = Some(t)]
    IN  IF \/ exit_price1 = None \/ position.entry_price1 = None
           \/ exit_price2 = None \/ position.entry_price2 = None
        THEN [position |-> marked, raised |-> TRUE]
        ELSE
            LET pnl1 == RMul(RInt(exit_price1[1] - position.entry_price1[1]),
                             RAbs(position.quantity1))
                pnl2 == RMul(RInt(exit_price2[1] - position.entry_price2[1]),
                             RAbs(position.quantity2))
            IN  [position |-> [marked EXCEPT !.pnl = RAdd(pnl1, pnl2),
                                             !.is_closed = TRUE],
                 raised |-> FALSE]

\* position_manager.py Position.close: the assignments in program order; the
\* subtraction raises TypeError on a None price, after the exit fields are set.
PositionClose(position, exit_price1, exit_price2, t) ==
    LET marked == [position EXCEPT !.exit_price1 = exit_price1,
                                   !.exit_price2 = exit_price2,
                                   !.exit_timestamp = Some(t)]
    IN  IF \/ exit_price1 = None \/ position.entry_price1 = None
           \/ exit_price2 = None \/ position.entry_price2 = None
        THEN [position |-> marked, raised |-> TRUE]
        ELSE
            LET pnl1 == RMul(RInt(exit_price1[1] - position.entry_price1[1]),
                             position.quantity1)
                pnl2 == RMul(RInt(exit_price2[1] - position.entry_price2[1]),
                             position.quantity2)
            IN  [position |-> [marked EXCEPT !.pnl = RAdd(pnl1, pnl2),
                                             !.is_closed = TRUE],
                 raised |-> FALSE]

\* position_manager.py has_position
has_position(pos, pair_name) ==
    pair_name \in DOMAIN pos /\ ~pos[pair_name].is_closed

\* open_position without its refusal: the new Position replaces the open one.
open_position_Unguarded(pos, pair_name, asset1, asset2, quantity1, quantity2, entry_zscore, entry_price1, entry_price2, t) ==
    LET position == NewPosition(pair_name, asset1, asset2, quantity1, quantity2,
                                entry_zscore, entry_price1, entry_price2, t)
    IN  [positions |-> DictSet(pos, pair_name, position), ret |-> Some(position)]

\* position_manager.py open_position: the new ledger and the Position returned.
open_position(pos, pair_name, asset1, asset2, quantity1, quantity2, entry_zscore, entry_price1, entry_price2, t) ==
    IF pair_name \in DOMAIN pos /\ ~pos[pair_name].is_closed
    THEN [positions |-> pos, ret |-> Some(pos[pair_name])]
    ELSE
        LET position == NewPosition(pair_name, asset1, asset2, quantity1, quantity2,
                                    entry_zscore, entry_price1, entry_price2, t)
        IN  [positions |-> DictSet(pos, pair_name, position), ret |-> Some(position)]

\* close_position without its look at is_closed: a closed Position is closed again.
close_position_Unguarded(pos, pair_name, exit_price1, exit_price2, t) ==
    IF pair_name \notin DOMAIN pos
    THEN [positions |-> pos, ret |-> None, raised |-> FALSE]
    ELSE
        LET c == PositionClose(pos[pair_name], exit_price1, exit_price2, t)
        IN  [positions |-> DictSet(pos, pair_name, c.position),
             ret |-> Some(c.position), raised |-> c.raised]

\* position_manager.py close_position: the new ledger, the Position returned
\* and whether Position.close raised.
close_position(pos, pair_name, exit_price1, exit_price2, t) ==
    IF pair_name \notin DOMAIN pos
    THEN [positions |-> pos, ret |-> None, raised |-> FALSE]
    ELSE IF pos[pair_name].is_closed
    THEN [positions |-> pos, ret |-> Some(pos[pair_name]), raised |-> FALSE]
    ELSE
        LET c == PositionClose(pos[pair_name], exit_price1, exit_price2, t)
        IN  [positions |-> DictSet(pos, pair_name, c.position),
             ret |-> Some(c.position), raised |-> c.raised]

\* position_manager.py get_total_pnl: the sum over the closed Positions held.
RECURSIVE SumPnl(_, _)
SumPnl(pos, names) ==
    IF names = {} THEN RZero
    ELSE LET p == CHOOSE q \in names : TRUE
         IN  RAdd(pos[p].pnl, SumPnl(pos, names \ {p}))

get_total_pnl(pos) == SumPnl(pos, {p \in DOMAIN pos : pos[p].is_closed})

----------------------------------------------------------------------------
(* OrderManager *)

OrderStatus == {"pending", "submitted", "filled", "partially_filled",
                "cancelled", "rejected"}

\* order_manager.py Order.__init__ as called by create_order
NewOrder(order_id, pair_name, asset1, asset2, side1, side2, quantity1, quantity2, t) ==
    [order_id |-> order_id, pair_name |-> pair_name,
     asset1 |-> asset1, asset2 |-> asset2, side1 |-> side1, side2 |-> side2,
     quantity1 |-> quantity1, quantity2 |-> quantity2,
     order_type |-> "market", status |-> "pending", timestamp |-> t,
     exchange_order_id1 |-> None, exchange_order_id2 |-> None,
     filled_quantity1 |-> Some(RZero), filled_quantity2 |-> Some(RZero),
     filled_price1 |-> Some(0), filled_price2 |-> Some(0)]

\* order_manager.py Order.update_status
update_status(order, status) == [order EXCEPT !.status = status]

\* order_manager.py OrderManager.update_order with one keyword argument
update_order(ords, order_id, key, value) ==
    IF order_id \in DOMAIN ords /\ key \in DOMAIN ords[order_id]
    THEN [ords EXCEPT ![order_id] = DictSet(@, key, value)]
    ELSE ords

----------------------------------------------------------------------------
(* ExchangeInterface: the exchange is the environment *)

\* The conventions of the exchange the engine was constructed on, seen in the
\* payload create_market_order returns for a filled market order: a price and
\* the amount filled ("priced"), a null price ("unpriced"), only an id
\* ("bare"), or a price and half the amount filled ("partial").
Exchanges == {"priced", "unpriced", "bare", "partial"}

\* The market: the last price of a symbol, and the price a market order gets,
\* a buy above it and a sell below it.
Quote(symbol) == IF symbol = "asset2" THEN 50 ELSE 100
FillPrice(symbol, side) ==
    IF side = "buy" THEN Quote(symbol) + Quote(symbol) \div 10
    ELSE Quote(symbol) - Quote(symbol) \div 10

\* exchange_interface.py place_market_order: the payload, or None on any exception.
place_market_order(exchange_name, symbol, side, amount, accepted) ==
    IF ~accepted THEN None
    ELSE IF exchange_name = "bare" THEN Some([id |-> Some(symbol)])
    ELSE IF exchange_name = "unpriced"
    THEN Some([id |-> Some(symbol), price |-> None, filled |-> Some(amount)])
    ELSE IF exchange_name = "priced"
    THEN Some([id |-> Some(symbol), price |-> Some(FillPrice(symbol, side)),
               filled |-> Some(amount)])
    ELSE Some([id |-> Some(symbol), price |-> Some(FillPrice(symbol, side)),
               filled |-> Some(RMul(amount, Rat(1, 2)))])

\* exchange_interface.py get_ticker: the 'last' price, or None on any exception.
get_ticker(symbol, available) == IF available THEN Some(Quote(symbol)) ELSE None

\* Whether fetch_ticker answers for each of the two assets of a pair.  Every
\* case is played on the first pair; the second pair's tickers always answer.
TickersAvailableFor(pair_name) ==
    IF pair_name = PairOrder[1] THEN BOOLEAN \X BOOLEAN ELSE {<<TRUE, TRUE>>}

\* The total of get_balance() that the caller hands to execute_signal: 0 when
\* the lookup failed, 600 too little for one unit of spread, 5000 enough.
Balances == {0, 600, 5000}

----------------------------------------------------------------------------
(* ExecutionEngine.execute_signal, in program order *)

\* helpers.py safe_divide
safe_divide(numerator, denominator) ==
    IF denominator[1] = 0 THEN RZero ELSE RDiv(numerator, denominator)

\* A scaling that fits the first leg alone into the approved size.
RiskScale_FirstLeg(signal_type, quantity1, quantity2, price1, price2, account_balance) ==
    IF signal_type \in {"buy_spread", "sell_spread"}
    THEN
        LET cost1 == RMul(RAbs(quantity1), RInt(price1))
            cost2 == RMul(RAbs(quantity2), RInt(price2))
            total_cost == RAdd(cost1, cost2)
            size == calculate_position_size(account_balance)
        IN  IF RGt(total_cost, size) THEN safe_divide(size, cost1) ELSE RInt(1)
    ELSE RInt(1)

\* The risk scaling of an opening signal: the factor applied to both quantities.
RiskScale(signal_type, quantity1, quantity2, price1, price2, account_balance) ==
    IF signal_type \in {"buy_spread", "sell_spread"}
    THEN
        LET cost1 == RMul(RAbs(quantity1), RInt(price1))
            cost2 == RMul(RAbs(quantity2), RInt(price2))
            total_cost == RAdd(cost1, cost2)
            size == calculate_position_size(account_balance)
        IN  IF RGt(total_cost, size) THEN safe_divide(size, total_cost) ELSE RInt(1)
    ELSE RInt(1)

SideOf(quantity) == IF RGt(quantity, RZero) THEN "buy" ELSE "sell"

\* An early return that reports a failure instead of returning None.
NullReturn_Failure ==
    /\ result' = Some([success |-> FALSE, error |-> "no_price"])
    /\ frame' = None
    /\ pc' = "returned"
    /\ UNCHANGED <<orders, now>>

\* The early returns of lines 48 and 64: None, with nothing created.
NullReturn ==
    /\ result' = None
    /\ frame' = None
    /\ pc' = "returned"
    /\ UNCHANGED <<orders, now>>

\* Lines 45-95: the early returns, the sizing and create_order.
execute_signal_begin(sig, pair_name, account_balance, available1, available2) ==
    LET asset1 == Get(Get(sig, "metadata", <<>>), "asset1", "asset1")
        asset2 == Get(Get(sig, "metadata", <<>>), "asset2", "asset2")
        ticker1 == get_ticker(asset1, available1)
        ticker2 == get_ticker(asset2, available2)
    IN
    /\ signal' = sig
    /\ cur' = pair_name
    /\ last' = None
    /\ IF sig.signal = "hold" \/ ticker1 = None \/ ticker2 = None
       THEN /\ NullReturn
            /\ tickers' = IF sig.signal = "hold" THEN None ELSE <<ticker1, ticker2>>
       ELSE
            LET price1 == ticker1[1]
                price2 == ticker2[1]
                scale == RiskScale(sig.signal, sig.quantity1, sig.quantity2,
                                   price1, price2, account_balance)
                quantity1 == RMul(sig.quantity1, scale)
                quantity2 == RMul(sig.quantity2, scale)
                side1 == SideOf(quantity1)
                side2 == SideOf(quantity2)
                order_id == Len(orders) + 1
            IN  /\ Len(orders) < MaxOrders
                /\ orders' = Append(orders,
                       NewOrder(order_id, pair_name, asset1, asset2, side1, side2,
                                RAbs(quantity1), RAbs(quantity2), now))
                /\ frame' = [signal_type |-> sig.signal, pair_name |-> pair_name,
                             asset1 |-> asset1, asset2 |-> asset2,
                             quantity1 |-> quantity1, quantity2 |-> quantity2,
                             zscore |-> sig.zscore,
                             price1 |-> price1, price2 |-> price2,
                             side1 |-> side1, side2 |-> side2,
                             account_balance |-> account_balance,
                             order_id |-> order_id,
                             order1_result |-> None, order2_result |-> None]
                /\ tickers' = <<ticker1, ticker2>>
                /\ result' = None
                /\ pc' = "leg1"
                /\ now' = now + 1
    /\ UNCHANGED <<pair_states, positions, exchange, config>>

\* A first leg whose failure ends the submission: the second leg is skipped.
SubmitLeg1_StopOnFailure ==
    /\ pc = "leg1"
    /\ \E accepted \in BOOLEAN :
        LET r == place_market_order(exchange, frame.asset1, frame.side1,
                                    RAbs(frame.quantity1), accepted)
        IN  /\ frame' = [frame EXCEPT !.order1_result = r]
            /\ orders' = IF r # None
                         THEN [orders EXCEPT ![frame.order_id] =
                                 [@ EXCEPT
                                    !.exchange_order_id1 = Get(r[1], "id", None),
                                    !.filled_quantity1 =
                                        Get(r[1], "filled", Some(RAbs(frame.quantity1))),
                                    !.filled_price1 =
                                        Get(r[1], "price", Some(frame.price1))]]
                         ELSE orders
            /\ pc' = IF r # None THEN "leg2" ELSE "settle"
    /\ UNCHANGED <<pair_states, positions, now, cur, signal, result, last, exchange, config, tickers>>

\* Lines 99-107: the first leg.
SubmitLeg1 ==
    /\ pc = "leg1"
    /\ \E accepted \in BOOLEAN :
        LET r == place_market_order(exchange, frame.asset1, frame.side1,
                                    RAbs(frame.quantity1), accepted)
        IN  /\ frame' = [frame EXCEPT !.order1_result = r]
            /\ orders' = IF r # None
                         THEN [orders EXCEPT ![frame.order_id] =
                                 [@ EXCEPT
                                    !.exchange_order_id1 = Get(r[1], "id", None),
                                    !.filled_quantity1 =
                                        Get(r[1], "filled", Some(RAbs(frame.quantity1))),
                                    !.filled_price1 =
                                        Get(r[1], "price", Some(frame.price1))]]
                         ELSE orders
    /\ pc' = "leg2"
    /\ UNCHANGED <<pair_states, positions, now, cur, signal, result, last, exchange, config, tickers>>

\* Lines 109-117: the second leg, whatever the first one did.
SubmitLeg2 ==
    /\ pc = "leg2"
    /\ \E accepted \in BOOLEAN :
        LET r == place_market_order(exchange, frame.asset2, frame.side2,
                                    RAbs(frame.quantity2), accepted)
        IN  /\ frame' = [frame EXCEPT !.order2_result = r]
            /\ orders' = IF r # None
                         THEN [orders EXCEPT ![frame.order_id] =
                                 [@ EXCEPT
                                    !.exchange_order_id2 = Get(r[1], "id", None),
                                    !.filled_quantity2 =
                                        Get(r[1], "filled", Some(RAbs(frame.quantity2))),
                                    !.filled_price2 =
                                        Get(r[1], "price", Some(frame.price2))]]
                         ELSE orders
    /\ pc' = "settle"
    /\ UNCHANGED <<pair_states, positions, now, cur, signal, result, last, exchange, config, tickers>>

\* The test of line 120 with 'or' for 'and'.
BothLegsFilled_Either(order1_result, order2_result) ==
    order1_result # None \/ order2_result # None

\* The test of line 120.
BothLegsFilled(order1_result, order2_result) ==
    order1_result # None /\ order2_result # None

\* Lines 119-121 and 147-154: the status update, and the failure return.
Settle ==
    /\ pc = "settle"
    /\ IF BothLegsFilled(frame.order1_result, frame.order2_result)
       THEN /\ orders' = [orders EXCEPT ![frame.order_id] = update_status(@, "filled")]
            /\ pc' = "book"
            /\ UNCHANGED result
       ELSE /\ orders' = [orders EXCEPT ![frame.order_id] = update_status(@, "rejected")]
            /\ result' = Some([success |-> FALSE, order_id |-> frame.order_id,
                               error |-> "order_failed"])
            /\ pc' = "returned"
    /\ UNCHANGED <<pair_states, positions, now, cur, signal, frame, last, exchange, config, tickers>>

\* Lines 123-146 and the handler of lines 156-163: the ledger update and the
\* success return, or the handler when Position.close raised.
Book ==
    /\ pc = "book"
    /\ LET order == orders[frame.order_id]
           booked ==
               IF frame.signal_type \in {"buy_spread", "sell_spread"}
               THEN LET o == open_position(positions, frame.pair_name, frame.asset1,
                                 frame.asset2, frame.quantity1, frame.quantity2,
                                 frame.zscore, order.filled_price1,
                                 order.filled_price2, now)
                    IN  [positions |-> o.positions, raised |-> FALSE,
                         call |-> Some([op |-> "open_position", ret |-> o.ret])]
               ELSE IF frame.signal_type = "close"
               THEN LET c == close_position(positions, frame.pair_name,
                                 order.filled_price1, order.filled_price2, now)
                    IN  [positions |-> c.positions, raised |-> c.raised,
                         call |-> Some([op |-> "close_position", ret |-> c.ret])]
               ELSE [positions |-> positions, raised |-> FALSE, call |-> None]
       IN  /\ positions' = booked.positions
           /\ last' = booked.call
           /\ IF booked.raised
              THEN /\ orders' = [orders EXCEPT ![frame.order_id] =
                                    update_status(@, "rejected")]
                   /\ result' = Some([success |-> FALSE, order_id |-> frame.order_id,
                                      error |-> "TypeError"])
              ELSE /\ UNCHANGED orders
                   /\ result' = Some([success |-> TRUE, order_id |-> order.order_id,
                                      filled_quantity1 |-> order.filled_quantity1,
                                      filled_quantity2 |-> order.filled_quantity2,
                                      filled_price1 |-> order.filled_price1,
                                      filled_price2 |-> order.filled_price2])
    /\ now' = now + 1
    /\ pc' = "returned"
    /\ UNCHANGED <<pair_states, cur, signal, frame, exchange, config, tickers>>

----------------------------------------------------------------------------
(* Initial state: the three components as constructed *)

Constructed ==
    /\ pair_states = <<>>
    /\ positions = <<>>
    /\ orders = <<>>
    /\ now = 0
    /\ pc = "idle"
    /\ cur = PairOrder[1]
    /\ signal = None
    /\ frame = None
    /\ result = None
    /\ last = None
    /\ tickers = None

Init == Constructed /\ exchange \in Exchanges /\ config = DefaultConfig

----------------------------------------------------------------------------
(* The polling loop: main.py run() and _process_pair *)

\* Snapshots the loop meets: an entry on each side, convergence, a stop.
LoopZScores == {-25, 3, 25, 35}
LoopCorrelations == {50, 90}
LoopHedgeRatios == {2}
LoopStats ==
    {StatsOf(z, c, h, TRUE) : z \in LoopZScores, c \in LoopCorrelations,
                              h \in LoopHedgeRatios}

LoopBalances == {600}

\* The snapshots each pair meets.  Every case is played on the first pair; the
\* second pair, there to share the cycle, only enters short and converges.
LoopStatsFor(pair_name) ==
    IF pair_name = PairOrder[1] THEN LoopStats
    ELSE {StatsOf(25, 90, 2, TRUE), StatsOf(3, 90, 2, TRUE)}

\* The pair after pair_name in the for loop of run(); "-" ends the cycle.
NextPair(pair_name) ==
    LET i == CHOOSE j \in 1..Len(PairOrder) : PairOrder[j] = pair_name
    IN  IF i < Len(PairOrder) THEN PairOrder[i + 1] ELSE "-"

\* _process_pair up to the signal: a history lookup that raises leaves the
\* call with the exception, an empty history returns at once, a 'hold' signal
\* ends the pair, any other signal goes on to execution.
LoopCalculate ==
    /\ pc = "idle"
    /\ cur \in Pairs
    /\ \E data \in DataKinds \cup {"empty_history", "raised"} :
       \E stats \in IF data = "ok" THEN LoopStatsFor(cur) ELSE {StatsOf(0, 0, 1, FALSE)} :
        IF data = "raised"
        THEN /\ pc' = "failed"
             /\ UNCHANGED <<pair_states, signal, cur>>
        ELSE IF data = "empty_history"
        THEN /\ cur' = NextPair(cur)
             /\ UNCHANGED <<pair_states, signal, pc>>
        ELSE
            LET cs == calculate_signals(pair_states, cur, data, stats)
            IN  /\ pair_states' = cs.pair_states
                /\ IF cs.signal.signal = "hold"
                   THEN pc' = "idle" /\ cur' = NextPair(cur) /\ signal' = None
                   ELSE pc' = "signalled" /\ signal' = cs.signal /\ UNCHANGED cur
    /\ UNCHANGED <<positions, orders, now, frame, result, last, exchange, config, tickers>>

\* _process_pair lines 153-162: the balance lookup and the call of execute_signal.
\* The sum over the balances raises TypeError when one of them is None, and
\* _process_pair is left with the exception before execute_signal is called.
LoopExecute ==
    /\ pc = "signalled"
    /\ \/ \E account_balance \in LoopBalances, available \in TickersAvailableFor(cur) :
            execute_signal_begin(signal, cur, account_balance, available[1], available[2])
       \/ /\ pc' = "failed"
          /\ UNCHANGED <<pair_states, positions, orders, now, cur, signal, frame, result,
                         last, exchange, config, tickers>>

\* The caller's test without the look at 'success'.
ConfirmedBy_AnyResult(res) == res # None

\* The caller's test of lines 164-172 that guards update_position.
ConfirmedBy(res) == res # None /\ res[1].success

\* _process_pair lines 164-179: update_position only on a successful result.
LoopAfter ==
    /\ pc = "returned"
    /\ IF ConfirmedBy(result)
       THEN pair_states' = update_position(pair_states, cur, signal.signal,
                               signal.quantity1, signal.quantity2, signal.zscore)
       ELSE UNCHANGED pair_states
    /\ pc' = "idle"
    /\ cur' = NextPair(cur)
    /\ signal' = None /\ frame' = None /\ result' = None /\ last' = None
    /\ tickers' = None
    /\ UNCHANGED <<positions, orders, now, exchange, config>>

\* A handler that lets the exception through: run() returns.
LoopCaught_Fatal ==
    /\ pc = "failed"
    /\ pc' = "stopped"
    /\ UNCHANGED <<pair_states, positions, orders, now, cur, signal, frame, result, last,
                   exchange, config, tickers>>

\* run() lines 92-97: the exception of _process_pair is caught and reported,
\* and the for loop goes on with the next pair.
LoopCaught ==
    /\ pc = "failed"
    /\ pc' = "idle"
    /\ cur' = NextPair(cur)
    /\ signal' = None
    /\ UNCHANGED <<pair_states, positions, orders, now, frame, result, last, exchange,
                   config, tickers>>

\* The end of a cycle: the status report, the sleep, the health check of the
\* next cycle, then the first pair again.
LoopSleep ==
    /\ pc = "idle"
    /\ cur = "-"
    /\ cur' = PairOrder[1]
    /\ UNCHANGED <<pair_states, positions, orders, now, pc, signal, frame, result, last,
                   exchange, config, tickers>>

Next ==
    \/ LoopCalculate
    \/ LoopExecute
    \/ SubmitLeg1
    \/ SubmitLeg2
    \/ Settle
    \/ Book
    \/ LoopAfter
    \/ LoopCaught
    \/ LoopSleep

Spec == Init /\ [][Next]_vars

----------------------------------------------------------------------------
(* The execution engine on its own: execute_signal called with any signal *)

\* Signals of the shapes calculate_signals returns, for hedge ratio 2.
EngineSignals ==
    {MkSignal("sell_spread", RInt(1), RInt(-2), 25, <<>>),
     MkSignal("buy_spread", RInt(-1), RInt(2), -25, <<>>),
     MkSignal("close", RInt(-1), RInt(2), 3, <<>>),
     MkSignal("hold", RZero, RZero, 0, <<>>)}

\* The calls made for each pair.  Every case is played on the first pair; the
\* second pair, there to share the ledgers, is only sold and closed.
EngineSignalsFor(pair_name) ==
    IF pair_name = PairOrder[1] THEN EngineSignals
    ELSE {sig \in EngineSignals : sig.signal \in {"sell_spread", "close"}}
\* Every balance is played on the first pair's short entry.
EngineBalancesFor(pair_name, sig) ==
    IF pair_name = PairOrder[1] /\ sig.signal = "sell_spread" THEN Balances ELSE {600}

EngineExecute ==
    /\ pc = "idle"
    /\ \E pair_name \in Pairs :
       \E sig \in EngineSignalsFor(pair_name) :
       \E account_balance \in EngineBalancesFor(pair_name, sig),
          available \in TickersAvailableFor(pair_name) :
        execute_signal_begin(sig, pair_name, account_balance, available[1], available[2])

\* The caller takes the result; the engine is ready for the next call.
EngineReturn ==
    /\ pc = "returned"
    /\ pc' = "idle"
    /\ signal' = None /\ frame' = None /\ result' = None /\ last' = None
    /\ tickers' = None
    /\ UNCHANGED <<pair_states, positions, orders, now, cur, exchange, config>>

\* OrderManager.update_order(order_id, status=...) called on a recorded order.
EngineUpdateOrder ==
    /\ pc = "idle"
    /\ \E order_id \in DOMAIN orders, status \in OrderStatus :
        /\ orders[order_id].status # status
        /\ orders' = update_order(orders, order_id, "status", status)
    /\ UNCHANGED <<pair_states, positions, now, pc, cur, signal, frame, result, last,
                   exchange, config, tickers>>

NextEngine ==
    \/ EngineExecute
    \/ SubmitLeg1
    \/ SubmitLeg2
    \/ Settle
    \/ Book
    \/ EngineReturn

SpecEngine == Init /\ [][NextEngine]_vars

----------------------------------------------------------------------------
(* The strategy on its own: calculate_signals on every boundary of its rules *)

ZScores == {-35, -30, -25, -20, -5, -3, 0, 3, 5, 20, 25, 30, 35}
Correlations == {50, 80, 90}
HedgeRatios == {1, 2}
AllStats ==
    {StatsOf(z, c, h, co) : z \in ZScores, c \in Correlations,
                            h \in HedgeRatios, co \in BOOLEAN}

StrategyPairs == {"P1"}

StrategyCalculate ==
    /\ pc = "idle"
    /\ \E pair_name \in StrategyPairs, data \in DataKinds :
       \E stats \in IF data = "ok" THEN AllStats ELSE {StatsOf(0, 0, 1, FALSE)} :
        LET cs == calculate_signals(pair_states, pair_name, data, stats)
        IN  /\ pair_states' = cs.pair_states
            /\ signal' = cs.signal
            /\ cur' = pair_name
    /\ pc' = "signalled"
    /\ UNCHANGED <<positions, orders, now, frame, result, last, exchange, config, tickers>>

\* The caller reports a confirmed execution of the signal, as _process_pair does.
StrategyConfirm ==
    /\ pc = "signalled"
    /\ signal.signal # "hold"
    /\ pair_states' = update_position(pair_states, cur, signal.signal,
                          signal.quantity1, signal.quantity2, signal.zscore)
    /\ pc' = "idle"
    /\ signal' = None
    /\ UNCHANGED <<positions, orders, now, cur, frame, result, last, exchange, config, tickers>>

\* Nothing was executed, or the execution failed: no call of update_position.
StrategyDrop ==
    /\ pc = "signalled"
    /\ pc' = "idle"
    /\ signal' = None
    /\ UNCHANGED <<pair_states, positions, orders, now, cur, frame, result, last,
                   exchange, config, tickers>>

NextStrategy ==
    \/ StrategyCalculate
    \/ StrategyConfirm
    \/ StrategyDrop

\* The strategy holds no exchange; the variable is pinned.
InitStrategy == Constructed /\ exchange = "priced" /\ config = DefaultConfig

SpecStrategy == InitStrategy /\ [][NextStrategy]_vars

----------------------------------------------------------------------------
(* Startup: the components constructed from any configuration, then the    *)
(* strategy at work                                                        *)

\* Configurations: the defaults, an exit threshold equal to and above the
\* entry threshold, a zero exit threshold, a negative entry threshold, a
\* negative position fraction, a maximum position fraction above 1.
Configs ==
    {DefaultConfig,
     [DefaultConfig EXCEPT !.z_exit_threshold = 20],
     [DefaultConfig EXCEPT !.z_exit_threshold = 25],
     [DefaultConfig EXCEPT !.z_exit_threshold = 0],
     [DefaultConfig EXCEPT !.z_entry_threshold = -20],
     [DefaultConfig EXCEPT !.position_size = Rat(-1, 10)],
     [DefaultConfig EXCEPT !.max_position = Rat(3, 2)]}

\* PairsTradingStrategy.__init__ and RiskManager.__init__ copy the thresholds
\* from the configuration as they are; PairsTradingBot.__init__ builds the
\* other components and returns.
Construct ==
    /\ pc = "new"
    /\ pc' = "idle"
    /\ UNCHANGED <<pair_states, positions, orders, now, cur, signal, frame, result, last,
                   exchange, config, tickers>>

NextStartup ==
    \/ Construct
    \/ StrategyCalculate
    \/ StrategyConfirm
    \/ StrategyDrop

\* Before construction: nothing exists yet but the configuration file.
InitStartup ==
    /\ pair_states = <<>> /\ positions = <<>> /\ orders = <<>>
    /\ now = 0
    /\ pc = "new"
    /\ cur = PairOrder[1]
    /\ signal = None /\ frame = None /\ result = None /\ last = None /\ tickers = None
    /\ exchange = "priced"
    /\ config \in Configs

SpecStartup == InitStartup /\ [][NextStartup]_vars

----------------------------------------------------------------------------
(* The position ledger on its own: open_position and close_position called *)
(* with any arguments                                                      *)

\* Signed quantities of the two legs: a unit spread either way, and a scaled one.
LedgerQuantities ==
    {<<RInt(1), RInt(-2)>>, <<RInt(-1), RInt(2)>>, <<Rat(-3, 10), Rat(3, 5)>>}

\* Prices of the two legs handed in at entry and at exit; a price may be None.
LedgerEntryPrices == {<<Some(100), Some(50)>>, <<None, None>>}
LedgerExitPrices == {<<Some(110), Some(55)>>, <<Some(90), Some(55)>>, <<None, Some(55)>>}

LedgerOpen ==
    /\ pc = "idle"
    /\ now < MaxCalls
    /\ \E pair_name \in Pairs, q \in LedgerQuantities, entry \in LedgerEntryPrices :
        LET o == open_position(positions, pair_name, "asset1", "asset2", q[1], q[2],
                               25, entry[1], entry[2], now)
        IN  /\ positions' = o.positions
            /\ last' = Some([op |-> "open_position", ret |-> o.ret])
    /\ now' = now + 1
    /\ UNCHANGED <<pair_states, orders, pc, cur, signal, frame, result, exchange, config,
                   tickers>>

\* A call in which Position.close raises leaves the exception with the caller
\* and the Position as the assignments before the subtraction left it.
LedgerClose ==
    /\ pc = "idle"
    /\ now < MaxCalls
    /\ \E pair_name \in Pairs, exit \in LedgerExitPrices :
        LET c == close_position(positions, pair_name, exit[1], exit[2], now)
        IN  /\ positions' = c.positions
            /\ last' = Some([op |-> "close_position", ret |-> c.ret])
    /\ now' = now + 1
    /\ UNCHANGED <<pair_states, orders, pc, cur, signal, frame, result, exchange, config,
                   tickers>>

NextLedger ==
    \/ LedgerOpen
    \/ LedgerClose

\* The ledger holds no exchange and reads no threshold; both are pinned.
InitLedger == Constructed /\ exchange = "priced" /\ config = DefaultConfig

SpecLedger == InitLedger /\ [][NextLedger]_vars

----------------------------------------------------------------------------
(* math_utils.py and DataProcessor.calculate_pair_statistics                *)
(*                                                                         *)
(* A series is a sequence of exact rationals.  A quotient by a standard    *)
(* deviation is kept exact as [num, radicand], standing for                *)
(* num / sqrt(radicand): the radicand is the variance it was divided by.   *)
(* A radicand of zero is what the division by a zero deviation yields, not *)
(* a number.                                                               *)

MaxLen == 3             \* length of the series handed to the statistics
lookback_period == 2    \* DataProcessor.lookback_period, scaled to the series

RECURSIVE RSum(_)
RSum(s) == IF s = <<>> THEN RZero ELSE RAdd(Head(s), RSum(Tail(s)))

\* np.mean
np_mean(series) == RDiv(RSum(series), RInt(Len(series)))

\* The square of np.std (population variance).
np_var(series) ==
    LET mean == np_mean(series)
    IN  np_mean([i \in 1..Len(series) |->
                    RMul(RAdd(series[i], RNeg(mean)), RAdd(series[i], RNeg(mean)))])

\* The covariance np.corrcoef and linregress start from.
np_cov(series1, series2) ==
    LET mean1 == np_mean(series1)
        mean2 == np_mean(series2)
    IN  np_mean([i \in 1..Len(series1) |->
                    RMul(RAdd(series1[i], RNeg(mean1)), RAdd(series2[i], RNeg(mean2)))])

OverRoot(num, radicand) == [num |-> num, radicand |-> radicand]
Zero == OverRoot(RZero, RInt(1))

\* A test of the deviation that never finds it zero.
ZeroStd_Never(var) == FALSE

\* The test 'std == 0' of calculate_zscore.
ZeroStd(var) == var = RZero

\* math_utils.py calculate_correlation; np.corrcoef is NaN when a series is constant.
calculate_correlation(series1, series2) ==
    IF Len(series1) # Len(series2) \/ Len(series1) < 2 THEN Zero
    ELSE LET radicand == RMul(np_var(series1), np_var(series2))
         IN  IF radicand = RZero THEN Zero
             ELSE OverRoot(np_cov(series1, series2), radicand)

\* A regression of price1 on price2: the slope of the other line.
calculate_hedge_ratio_Inverse(price1, price2, nan_slope) ==
    IF Len(price1) # Len(price2) \/ Len(price1) < 2 THEN RInt(1)
    ELSE IF np_var(price2) = RZero
    THEN IF nan_slope THEN RInt(1) ELSE "ValueError"
    ELSE RDiv(np_cov(price1, price2), np_var(price2))

\* math_utils.py calculate_hedge_ratio: the slope of linregress(price1, price2).
\* When all values of price1 are identical linregress returns a NaN slope or
\* raises ValueError, depending on the SciPy installed (nan_slope).
calculate_hedge_ratio(price1, price2, nan_slope) ==
    IF Len(price1) # Len(price2) \/ Len(price1) < 2 THEN RInt(1)
    ELSE IF np_var(price1) = RZero
    THEN IF nan_slope THEN RInt(1) ELSE "ValueError"
    ELSE RDiv(np_cov(price1, price2), np_var(price1))

\* math_utils.py calculate_spread, on series of one length.
calculate_spread(price1, price2, hedge_ratio) ==
    [i \in 1..Len(price1) |-> RAdd(price2[i], RNeg(RMul(hedge_ratio, price1[i])))]

\* math_utils.py calculate_zscore
calculate_zscore(series, window) ==
    IF Len(series) = 0 THEN <<>>
    ELSE IF window = None \/ window[1] >= Len(series)
    THEN LET mean == np_mean(series)
             var == np_var(series)
         IN  IF ZeroStd(var)
             THEN [i \in 1..Len(series) |-> Zero]
             ELSE [i \in 1..Len(series) |-> OverRoot(RAdd(series[i], RNeg(mean)), var)]
    ELSE [i \in 1..Len(series) |->
            IF i <= window[1] THEN Zero
            ELSE LET window_data == SubSeq(series, i - window[1], i - 1)
                     mean == np_mean(window_data)
                     var == np_var(window_data)
                 IN  IF ZeroStd(var) THEN Zero
                     ELSE OverRoot(RAdd(series[i], RNeg(mean)), var)]

\* math_utils.py test_cointegration: coint_result is what statsmodels finds.
test_cointegration(series1, series2, coint_result) ==
    IF Len(series1) # Len(series2) \/ Len(series1) < 10 THEN FALSE ELSE coint_result

\* data_processor.py calculate_pair_statistics: the dict returned, or the
\* exception that leaves it.
calculate_pair_statistics(price1, price2, nan_slope, coint_result) ==
    IF Len(price1) # Len(price2) \/ Len(price1) < lookback_period THEN <<>>
    ELSE LET correlation == calculate_correlation(price1, price2)
             hedge_ratio == calculate_hedge_ratio(price1, price2, nan_slope)
         IN  IF hedge_ratio = "ValueError" THEN [raised |-> "ValueError"]
             ELSE LET spread == calculate_spread(price1, price2, hedge_ratio)
                      spread_mean == np_mean(spread)
                      spread_var == np_var(spread)
                  IN  [correlation |-> correlation,
                       hedge_ratio |-> hedge_ratio,
                       spread_mean |-> spread_mean,
                       spread_var |-> spread_var,
                       current_spread |-> spread[Len(spread)],
                       current_zscore |->
                           IF RGt(spread_var, RZero)
                           THEN OverRoot(RAdd(spread[Len(spread)], RNeg(spread_mean)),
                                         spread_var)
                           ELSE Zero,
                       is_cointegrated |-> test_cointegration(price1, price2, coint_result)]

----------------------------------------------------------------------------
(* The statistics on their own: each function called on every short series *)

RECURSIVE SeriesOver(_, _)
SeriesOver(values, n) ==
    IF n = 0 THEN {<<>>}
    ELSE LET shorter == SeriesOver(values, n - 1)
         IN  shorter \cup {Append(s, RInt(v)) : s \in {t \in shorter : Len(t) = n - 1},
                                                v \in values}

\* Prices of the first asset: every series up to MaxLen points.
Price1Values == {1, 2, 3}
Series1 == SeriesOver(Price1Values, MaxLen)

\* Prices of the second asset, given those of the first: on a line through
\* the origin, on it but for the last point, mirrored, constant, one point short.
Price2For(price1) ==
    LET n == Len(price1)
        scaled(k) == [i \in 1..n |-> RMul(RInt(k), price1[i])]
        bumped(k) == [i \in 1..n |-> IF i = n THEN RAdd(scaled(k)[i], RInt(1))
                                     ELSE scaled(k)[i]]
    IN  {scaled(k) : k \in HedgeRatios} \cup {bumped(k) : k \in HedgeRatios}
        \cup {[i \in 1..n |-> price1[n + 1 - i]], [i \in 1..n |-> RInt(2)],
              SubSeq(price1, 1, n - 1)}
Windows == {None} \cup {Some(w) : w \in 1..MaxLen}

MathCall(locals, ret) ==
    /\ frame' = locals
    /\ result' = Some(ret)
    /\ pc' = "returned"
    /\ UNCHANGED <<pair_states, positions, orders, now, cur, signal, last, exchange,
                   config, tickers>>

MathZScore ==
    /\ pc = "idle"
    /\ \E series \in Series1, window \in Windows :
            MathCall([fn |-> "calculate_zscore", series |-> series, window |-> window],
                     calculate_zscore(series, window))

MathCorrelation ==
    /\ pc = "idle"
    /\ \E series1 \in Series1 : \E series2 \in Price2For(series1) :
            MathCall([fn |-> "calculate_correlation", price1 |-> series1, price2 |-> series2],
                     calculate_correlation(series1, series2))

MathHedgeRatio ==
    /\ pc = "idle"
    /\ \E price1 \in Series1 : \E price2 \in Price2For(price1), nan_slope \in BOOLEAN :
            MathCall([fn |-> "calculate_hedge_ratio", price1 |-> price1, price2 |-> price2],
                     calculate_hedge_ratio(price1, price2, nan_slope))

\* calculate_spread with the hedge ratio of the two series, as
\* calculate_pair_statistics calls it, or with a ratio of 1.
MathSpread ==
    /\ pc = "idle"
    /\ \E price1 \in Series1 : \E price2 \in Price2For(price1) :
        /\ Len(price1) = Len(price2)
        /\ \E hedge_ratio \in {calculate_hedge_ratio(price1, price2, TRUE), RInt(1)} :
            MathCall([fn |-> "calculate_spread", price1 |-> price1, price2 |-> price2,
                      hedge_ratio |-> hedge_ratio],
                     calculate_spread(price1, price2, hedge_ratio))

MathPairStatistics ==
    /\ pc = "idle"
    /\ \E price1 \in Series1 : \E price2 \in Price2For(price1), nan_slope \in BOOLEAN :
            MathCall([fn |-> "calculate_pair_statistics", price1 |-> price1,
                      price2 |-> price2],
                     calculate_pair_statistics(price1, price2, nan_slope, FALSE))

MathReturn ==
    /\ pc = "returned"
    /\ frame # None /\ "fn" \in DOMAIN frame
    /\ frame' = None
    /\ result' = None
    /\ pc' = "idle"
    /\ UNCHANGED <<pair_states, positions, orders, now, cur, signal, last, exchange,
                   config, tickers>>

NextMath ==
    \/ MathZScore
    \/ MathCorrelation
    \/ MathHedgeRatio
    \/ MathSpread
    \/ MathPairStatistics
    \/ MathReturn

\* The functions hold no exchange and read no threshold; both are pinned.
InitMath == Constructed /\ exchange = "priced" /\ config = DefaultConfig

SpecMath == InitMath /\ [][NextMath]_vars

----------------------------------------------------------------------------
(* data_fetcher.py: the batch history fetch.  fetch_multiple_ohlcv starts  *)
(* one fetch_one task per symbol on the executor and awaits them together; *)
(* the tasks complete in any order.                                        *)

MaxSymbols == 2         \* symbols asked for in one batch

Symbols == {"BTC/USDT", "ETH/USDT", "SOL/USDT"}

RECURSIVE SymbolLists(_)
SymbolLists(n) ==
    IF n = 0 THEN {<<>>}
    ELSE LET shorter == SymbolLists(n - 1)
         IN  shorter \cup {Append(l, symbol) : l \in {t \in shorter : Len(t) = n - 1},
                                               symbol \in Symbols}

\* data_fetcher.py fetch_ohlcv: the frame of candles, or the empty frame when
\* the exchange call raised.
fetch_ohlcv(symbol, raised) ==
    IF raised THEN <<>> ELSE <<[symbol |-> symbol, close |-> Quote(symbol)]>>

\* Lines 151-152, the tasks created: none has completed.
FetchCall ==
    /\ pc = "idle"
    /\ \E symbols \in SymbolLists(MaxSymbols) :
        frame' = [fn |-> "fetch_multiple_ohlcv", symbols |-> symbols,
                  results |-> [i \in 1..Len(symbols) |-> None]]
    /\ pc' = "gathering"
    /\ UNCHANGED <<pair_states, positions, orders, now, cur, signal, result, last,
                   exchange, config, tickers>>

\* Lines 139-149: one fetch_one task completes, whichever it is.
FetchOne ==
    /\ pc = "gathering"
    /\ \E i \in 1..Len(frame.symbols), raised \in BOOLEAN :
        /\ frame.results[i] = None
        /\ frame' = [frame EXCEPT !.results[i] =
                        Some([symbol |-> frame.symbols[i],
                              df |-> fetch_ohlcv(frame.symbols[i], raised),
                              raised |-> raised])]
    /\ UNCHANGED <<pair_states, positions, orders, now, pc, cur, signal, result, last,
                   exchange, config, tickers>>

\* A wait that ends with the first task that completes.
Gathered_Any(results) ==
    Len(results) = 0 \/ \E i \in 1..Len(results) : results[i] # None

\* asyncio.gather: the await of line 152 ends when every task has completed.
Gathered(results) == \A i \in 1..Len(results) : results[i] # None

\* The dict comprehension of line 154 over the results at hand: a later
\* result of a symbol replaces an earlier one.
ResultDict(results) ==
    LET done == {i \in 1..Len(results) : results[i] # None}
        last_of(symbol) ==
            CHOOSE i \in done :
                /\ results[i][1].symbol = symbol
                /\ \A j \in done : results[j][1].symbol = symbol => j <= i
    IN  [symbol \in {results[i][1].symbol : i \in done} |->
            results[last_of(symbol)][1].df]

\* Lines 152-154: the await ends and the dict is returned.
FetchGather ==
    /\ pc = "gathering"
    /\ Gathered(frame.results)
    /\ result' = Some(ResultDict(frame.results))
    /\ pc' = "returned"
    /\ UNCHANGED <<pair_states, positions, orders, now, cur, signal, frame, last,
                   exchange, config, tickers>>

FetchReturn ==
    /\ pc = "returned"
    /\ frame' = None
    /\ result' = None
    /\ pc' = "idle"
    /\ UNCHANGED <<pair_states, positions, orders, now, cur, signal, last, exchange,
                   config, tickers>>

NextFetch ==
    \/ FetchCall
    \/ FetchOne
    \/ FetchGather
    \/ FetchReturn

\* The fetcher reads no threshold; the configuration is pinned.
InitFetch == Constructed /\ exchange = "priced" /\ config = DefaultConfig

SpecFetch == InitFetch /\ [][NextFetch]_vars

----------------------------------------------------------------------------
(* Claims *)

\* The position field of a pair's PairState; None when the pair is unknown.
PositionOf(ps, pair_name) ==
    IF pair_name \in DOMAIN ps THEN Get(ps[pair_name], "position", None) ELSE None

\* calculate_signals has just returned a signal computed from a full window:
\* the pair's cached snapshot is the one the signal was computed from.
Evaluated ==
    /\ pc = "signalled"
    /\ "error" \notin DOMAIN signal.metadata

Held == PositionOf(pair_states, cur) # None
SnapZ == pair_states[cur].current_zscore
SnapCorrelation == pair_states[cur].correlation
StopLossHolds == check_stop_loss(SnapZ, PositionOf(pair_states, cur)[1].entry_zscore)
ConvergenceHolds == Abs(SnapZ) < z_exit_threshold
ClosesHeld ==
    /\ signal.signal = "close"
    /\ signal.quantity1 = RNeg(PositionOf(pair_states, cur)[1].quantity1)
    /\ signal.quantity2 = RNeg(PositionOf(pair_states, cur)[1].quantity2)
HoldsFlat ==
    /\ signal.signal = "hold"
    /\ signal.quantity1 = RZero
    /\ signal.quantity2 = RZero

\* Exactly one of the two legs of the call in progress was filled.
AsymmetricFill ==
    /\ frame # None
    /\ (frame.order1_result = None) # (frame.order2_result = None)

\* C1: during an execute_signal call the ledger changes in no step before the
\* status update, and when exactly one leg was filled the status update leaves
\* every Position as it was, records the Order REJECTED and returns.
C1_AsymmetricFillLeavesLedger ==
    [][/\ (pc \in {"leg1", "leg2"} \/ pc' = "leg1") => positions' = positions
       /\ (pc = "settle" /\ AsymmetricFill) =>
             /\ positions' = positions
             /\ pc' = "returned"
             /\ orders'[frame.order_id].status = "rejected"]_vars

\* C1 witness: a call returned after an asymmetric fill on a pair whose
\* Position is open, and its Order is REJECTED.
C1_Witness ==
    /\ pc = "returned"
    /\ AsymmetricFill
    /\ has_position(positions, frame.pair_name)
    /\ orders[frame.order_id].status = "rejected"

\* C2: when exactly one leg was filled, the result execute_signal returns
\* carries the filled leg's fill details (quantity, price, exchange reference),
\* which a both-legs-failed result does not.
C2_AsymmetricFailureReported ==
    (pc = "returned" /\ AsymmetricFill) =>
        /\ result # None
        /\ IF frame.order1_result # None
           THEN {"filled_quantity1", "filled_price1"} \subseteq DOMAIN result[1]
           ELSE {"filled_quantity2", "filled_price2"} \subseteq DOMAIN result[1]

\* C3: with a position held, the stop-loss condition or the convergence
\* condition yields 'close', whatever the snapshot's correlation.
C3_ExitsIgnoreCorrelation ==
    (Evaluated /\ Held /\ (StopLossHolds \/ ConvergenceHolds)) =>
        signal.signal = "close"

\* The fields a Position is opened with.
SameEntry(a, b) ==
    /\ a.quantity1 = b.quantity1 /\ a.quantity2 = b.quantity2
    /\ a.entry_price1 = b.entry_price1 /\ a.entry_price2 = b.entry_price2
    /\ a.entry_zscore = b.entry_zscore
    /\ a.entry_timestamp = b.entry_timestamp

\* C4: a pair's non-closed Position is never replaced by another one (every
\* step leaves it the Position it was opened as), and open_position called
\* for a pair with a non-closed Position returns that Position and leaves the
\* ledger unchanged.
C4_OneOpenPositionPerPair ==
    [][/\ \A p \in DOMAIN positions :
             ~positions[p].is_closed =>
                 /\ p \in DOMAIN positions'
                 /\ SameEntry(positions'[p], positions[p])
       /\ (/\ pc = "book"
           /\ frame.signal_type \in {"buy_spread", "sell_spread"}
           /\ has_position(positions, frame.pair_name)) =>
             /\ positions' = positions
             /\ last' = Some([op |-> "open_position",
                              ret |-> Some(positions[frame.pair_name])])]_vars

\* C4 witness: open_position returned a Position opened by an earlier call.
C4_Witness ==
    /\ pc = "returned"
    /\ last # None
    /\ last[1].op = "open_position"
    /\ last[1].ret[1].entry_timestamp < now - 1
    /\ positions[frame.pair_name] = last[1].ret[1]

\* C5: in the polling loop a pair's position field changes only in the step
\* that follows a successful execute_signal result for that pair.
C5_PositionChangesOnlyOnSuccess ==
    [][\A p \in Pairs :
          PositionOf(pair_states', p) # PositionOf(pair_states, p) =>
              /\ pc = "returned"
              /\ p = cur
              /\ result # None
              /\ result[1].success]_vars

\* C5 witness: an execution for a pair holding a position returned a failure.
C5_Witness ==
    /\ pc = "returned"
    /\ result # None
    /\ ~result[1].success
    /\ Held

\* C6: an Order whose status is FILLED, REJECTED or CANCELLED keeps it.
C6_StatusMonotonic ==
    [][\A id \in DOMAIN orders :
          orders[id].status \in {"filled", "rejected", "cancelled"} =>
              orders'[id].status = orders[id].status]_vars

\* C7: an Order is PENDING until the status update, and when execute_signal
\* returns it is FILLED if both legs were filled and REJECTED if not.
C7_OrderLifecycle ==
    /\ pc \in {"leg1", "leg2", "settle"} => orders[frame.order_id].status = "pending"
    /\ (pc = "returned" /\ frame # None) =>
          orders[frame.order_id].status =
              IF frame.order1_result # None /\ frame.order2_result # None
              THEN "filled" ELSE "rejected"

\* C8: with a position held, the stop-loss condition yields 'close' with the
\* stored quantities negated, whatever |zscore| is against z_exit_threshold.
C8_StopLossCloses ==
    (Evaluated /\ Held /\ StopLossHolds) => ClosesHeld

\* C9: from FLAT with correlation at or above the threshold, the signal is
\* sell_spread (1, -hedge_ratio) above the entry threshold, buy_spread
\* (-1, hedge_ratio) below its negation, and hold (0, 0) otherwise.
C9_EntryRule ==
    (Evaluated /\ ~Held /\ SnapCorrelation >= correlation_threshold) =>
        IF SnapZ > z_entry_threshold
        THEN /\ signal.signal = "sell_spread"
             /\ signal.quantity1 = RInt(1)
             /\ signal.quantity2 = RInt(-pair_states[cur].hedge_ratio)
        ELSE IF SnapZ < -z_entry_threshold
        THEN /\ signal.signal = "buy_spread"
             /\ signal.quantity1 = RInt(-1)
             /\ signal.quantity2 = RInt(pair_states[cur].hedge_ratio)
        ELSE HoldsFlat

\* C9 witness: a FLAT pair evaluated exactly on the entry threshold holds.
C9_Witness ==
    /\ Evaluated
    /\ ~Held
    /\ SnapCorrelation >= correlation_threshold
    /\ SnapZ = z_entry_threshold
    /\ HoldsFlat

\* C10: with a position held and no stop-loss, the signal is 'close' with the
\* stored quantities negated when |zscore| < z_exit_threshold, else 'hold'.
C10_ConvergenceExit ==
    (Evaluated /\ Held /\ ~StopLossHolds) =>
        IF ConvergenceHolds THEN ClosesHeld ELSE signal.signal = "hold"

\* The snapshot cached for pair p in ps is below the correlation threshold.
LowCorrelation(ps, p) == ps[p].correlation < correlation_threshold

\* The position held for pair p in ps meets the stop-loss or the convergence
\* condition on the snapshot cached with it.
ExitDue(ps, p) ==
    \/ check_stop_loss(ps[p].current_zscore, PositionOf(ps, p)[1].entry_zscore)
    \/ Abs(ps[p].current_zscore) < z_exit_threshold

\* C11: when the loop takes up a pair and leaves it FLAT with a snapshot below
\* the correlation threshold, no signal goes to execution, whatever the
\* z-score: no Order is created and no Position changes for it in that cycle.
C11_GateBlocksEntries ==
    [][(/\ pc = "idle" /\ cur \in Pairs
        /\ cur \in DOMAIN pair_states'
        /\ PositionOf(pair_states', cur) = None
        /\ LowCorrelation(pair_states', cur)) =>
           /\ pc' # "signalled"
           /\ signal' = None
           /\ orders' = orders
           /\ positions' = positions]_vars

\* C11 witness: the first pair was passed over, FLAT, on a z-score beyond
\* the entry threshold with low correlation, and no Order exists.
C11_Witness ==
    /\ pc = "idle" /\ cur = PairOrder[2]
    /\ PairOrder[1] \in DOMAIN pair_states
    /\ PositionOf(pair_states, PairOrder[1]) = None
    /\ LowCorrelation(pair_states, PairOrder[1])
    /\ pair_states[PairOrder[1]].current_zscore > z_entry_threshold
    /\ orders = <<>>

\* C12: when the loop takes up a pair holding a position and the snapshot is
\* below the correlation threshold with neither exit condition met, the signal
\* is 'hold': nothing goes to execution, and the PairState position, the
\* ledger and the orders stay as they were.
C12_LowCorrelationKeepsPosition ==
    [][(/\ pc = "idle" /\ cur \in Pairs
        /\ cur \in DOMAIN pair_states'
        /\ PositionOf(pair_states', cur) # None
        /\ LowCorrelation(pair_states', cur)
        /\ ~ExitDue(pair_states', cur)) =>
           /\ pc' # "signalled"
           /\ signal' = None
           /\ PositionOf(pair_states', cur) = PositionOf(pair_states, cur)
           /\ positions' = positions
           /\ orders' = orders]_vars

\* C12 witness: the first pair was passed over with its position and its
\* ledger Position open, on a low-correlation snapshot meeting no exit condition.
C12_Witness ==
    /\ pc = "idle" /\ cur = PairOrder[2]
    /\ PositionOf(pair_states, PairOrder[1]) # None
    /\ has_position(positions, PairOrder[1])
    /\ LowCorrelation(pair_states, PairOrder[1])
    /\ ~ExitDue(pair_states, PairOrder[1])

\* The call of execute_signal just made got a 'hold' signal, or looked up the
\* two tickers and found one of them unavailable.
NoPriceOrHold ==
    \/ signal'.signal = "hold"
    \/ tickers'[1] = None
    \/ tickers'[2] = None

\* C13: a call of execute_signal with a 'hold' signal, or with the ticker of
\* either asset unavailable, returns None in the same step: no Order is
\* created, no leg is submitted and no Position changes.
C13_MissingPriceFailsFast ==
    [][(pc \in {"idle", "signalled"} /\ pc' \in {"leg1", "returned"} /\ NoPriceOrHold) =>
           /\ pc' = "returned"
           /\ result' = None
           /\ frame' = None
           /\ orders' = orders
           /\ positions' = positions]_vars

\* C13 witness: a 'close' for a pair whose Position is open returned None on a
\* missing second ticker; the Position is still open and no Order was added.
C13_Witness ==
    /\ pc = "returned"
    /\ signal.signal = "close"
    /\ tickers # None /\ tickers[1] # None /\ tickers[2] = None
    /\ result = None /\ frame = None
    /\ has_position(positions, cur)
    /\ Len(orders) = 1

\* The prices the two legs of the call in progress were filled at.
LegFills ==
    <<Some(FillPrice(frame.asset1, frame.side1)), Some(FillPrice(frame.asset2, frame.side2))>>

\* C14: a Position opened by the call that just returned has the two legs'
\* fill prices as entry prices, and a Position closed by it has them as exit
\* prices, on every exchange; the ticker prices looked up before are not used.
C14_LedgerUsesFillPrices ==
    (pc = "returned" /\ last # None /\ last[1].ret # None) =>
        LET position == last[1].ret[1]
        IN  /\ (last[1].op = "open_position" /\ position.entry_timestamp = now - 1) =>
                   <<position.entry_price1, position.entry_price2>> = LegFills
            /\ (last[1].op = "close_position" /\ position.exit_timestamp = Some(now - 1)) =>
                   <<position.exit_price1, position.exit_price2>> = LegFills

\* C15: a closed Position stays as it is for as long as the ledger holds it
\* (exit prices, exit time, pnl and the closed flag included), and a call of
\* close_position for a pair whose Position is closed returns that Position
\* and leaves the ledger unchanged.
C15_CloseIsIdempotent ==
    [][/\ \A p \in DOMAIN positions :
             (/\ positions[p].is_closed
              /\ positions'[p].entry_timestamp = positions[p].entry_timestamp) =>
                 positions'[p] = positions[p]
       /\ \A p \in DOMAIN positions :
             (/\ positions[p].is_closed
              /\ now' = now + 1
              /\ last' # None
              /\ last'[1].op = "close_position"
              /\ last'[1].ret # None
              /\ last'[1].ret[1].pair_name = p) =>
                 /\ positions' = positions
                 /\ last'[1].ret = Some(positions[p])]_vars

\* C15 witness: close_position returned a Position closed by an earlier call.
C15_Witness ==
    /\ last # None
    /\ last[1].op = "close_position"
    /\ last[1].ret # None
    /\ last[1].ret[1].is_closed
    /\ last[1].ret[1].exit_timestamp[1] < now - 1
    /\ positions[last[1].ret[1].pair_name] = last[1].ret[1]

\* C16: a Position that is not closed has pnl 0, and a closed one has
\* (exit_price1 - entry_price1) * quantity1 + (exit_price2 - entry_price2) *
\* quantity2 with the signed quantities; quantities 1 and -2 entered at 100
\* and 50 and left at 110 and 55 give 0.
C16_RealizedPnl ==
    \A p \in DOMAIN positions :
        LET x == positions[p]
        IN  IF ~x.is_closed THEN x.pnl = RZero
            ELSE
                LET d1 == x.exit_price1[1] - x.entry_price1[1]
                    d2 == x.exit_price2[1] - x.entry_price2[1]
                IN  /\ x.pnl[1] * x.quantity1[2] * x.quantity2[2] =
                          x.pnl[2] * (d1 * x.quantity1[1] * x.quantity2[2]
                                      + d2 * x.quantity2[1] * x.quantity1[2])
                    /\ (/\ x.quantity1 = RInt(1) /\ x.quantity2 = RInt(-2)
                        /\ x.entry_price1 = Some(100) /\ x.entry_price2 = Some(50)
                        /\ x.exit_price1 = Some(110) /\ x.exit_price2 = Some(55)) =>
                           x.pnl = RZero

\* C16 witness: the spec's example closed, next to a Position whose close
\* raised on a None price and left it open with pnl 0.
C16_Witness ==
    /\ \E p \in DOMAIN positions :
          /\ positions[p].is_closed
          /\ positions[p].quantity1 = RInt(1) /\ positions[p].quantity2 = RInt(-2)
          /\ positions[p].entry_price1 = Some(100) /\ positions[p].exit_price1 = Some(110)
          /\ positions[p].entry_price2 = Some(50) /\ positions[p].exit_price2 = Some(55)
          /\ positions[p].pnl = RZero
    /\ \E p \in DOMAIN positions :
          /\ ~positions[p].is_closed
          /\ positions[p].exit_timestamp # None

\* The notional of two signed quantities at the prices the call looked up.
Notional(quantity1, quantity2) ==
    RAdd(RMul(RAbs(quantity1), RInt(frame.price1)),
         RMul(RAbs(quantity2), RInt(frame.price2)))

\* The call in progress executes an opening signal and has created its Order.
OpeningInProgress ==
    /\ pc \in {"leg1", "leg2", "settle", "book"}
    /\ signal.signal \in {"buy_spread", "sell_spread"}

\* C17: the quantities an opening call submits are the signal's when their
\* notional does not exceed the approved size; when it does, they are the
\* signal's times one factor, their notional equals the approved size and
\* quantity2 / quantity1 is the signal's.  The Order carries their sizes.
C17_RiskScaling ==
    OpeningInProgress =>
        LET approved == calculate_position_size(frame.account_balance)
        IN  /\ IF RGt(Notional(signal.quantity1, signal.quantity2), approved)
               THEN /\ Notional(frame.quantity1, frame.quantity2) = approved
                    /\ RMul(frame.quantity1, signal.quantity2) =
                          RMul(frame.quantity2, signal.quantity1)
                    /\ ~RGt(RZero, RMul(frame.quantity1, signal.quantity1))
               ELSE /\ frame.quantity1 = signal.quantity1
                    /\ frame.quantity2 = signal.quantity2
            /\ orders[frame.order_id].quantity1 = RAbs(frame.quantity1)
            /\ orders[frame.order_id].quantity2 = RAbs(frame.quantity2)

\* C17 witness: a unit spread of notional 200 scaled into an approved size of 60.
C17_Witness ==
    /\ OpeningInProgress
    /\ frame.account_balance = 600
    /\ signal.quantity1 = RInt(1) /\ signal.quantity2 = RInt(-2)
    /\ frame.quantity1 = Rat(3, 10) /\ frame.quantity2 = Rat(-3, 5)

\* C18: the first leg is submitted only in a call that has just created its
\* Order, with neither leg submitted before; the step after it is the second
\* leg's submission whether the first leg was filled or failed, and the
\* status update comes only after the second leg.
C18_LegsInSequence ==
    [][/\ pc' = "leg1" =>
             /\ pc \in {"idle", "signalled"}
             /\ Len(orders') = Len(orders) + 1
             /\ frame'.order_id = Len(orders')
             /\ orders'[frame'.order_id].status = "pending"
             /\ frame'.order1_result = None /\ frame'.order2_result = None
       /\ pc = "leg1" => (pc' = "leg2" /\ frame'.order2_result = None)
       /\ pc' = "leg2" => pc = "leg1"
       /\ pc = "leg2" => (pc' = "settle" /\ frame'.order1_result = frame.order1_result)
       /\ pc' = "settle" => pc = "leg2"]_vars

\* C18 witness: the first leg failed and the second leg was submitted and filled.
C18_Witness ==
    /\ pc = "settle"
    /\ frame.order1_result = None
    /\ frame.order2_result # None

ValidConfig(c) ==
    /\ c.z_entry_threshold > 0
    /\ c.z_exit_threshold > 0
    /\ c.z_exit_threshold < c.z_entry_threshold

\* C20: under a configuration that violates the threshold ordering the
\* components are never constructed: the loop does not start, no signal is
\* computed and no Order is created.
C20_InvalidConfigIsFatal ==
    ~ValidConfig(config) =>
        /\ pc \in {"new", "config_error"}
        /\ signal = None
        /\ orders = <<>>

\* C21: when the history handed to calculate_signals is insufficient (it fails
\* validation, a series is missing, or the aligned history is shorter than
\* lookback_period) the call returns 'hold' with zero quantities and leaves the
\* pair's PairState, cached snapshot and position alike, as it was.
C21_InsufficientDataHolds ==
    [][(pc = "idle" /\ pc' = "signalled" /\ "error" \in DOMAIN signal'.metadata)
        => /\ signal'.signal = "hold"
           /\ signal'.quantity1 = RZero
           /\ signal'.quantity2 = RZero
           /\ pair_states' = pair_states]_vars

\* An insufficient history was handed in for a pair that holds a position and
\* a cached snapshot.
C21_Witness ==
    /\ pc = "signalled"
    /\ "error" \in DOMAIN signal.metadata
    /\ signal.metadata.error = "alignment_failed"
    /\ Held
    /\ "current_zscore" \in DOMAIN pair_states[cur]

\* What calculate_signals decides for the pair at hand on a full window with
\* the given statistics: the signal and the two quantities.
DecisionOn(stats) ==
    LET sig == calculate_signals(pair_states, cur, "ok", stats).signal
    IN  <<sig.signal, sig.quantity1, sig.quantity2>>

\* C22: two evaluations of calculate_signals that differ only in the
\* snapshot's is_cointegrated value (same stored position, z-score,
\* correlation, hedge ratio, thresholds) return the same signal and quantities.
C22_CointegrationAdvisory ==
    \A stats \in AllStats :
        DecisionOn([stats EXCEPT !.is_cointegrated = TRUE])
            = DecisionOn([stats EXCEPT !.is_cointegrated = FALSE])

\* An entry was signalled from a snapshot whose cointegration test failed.
C22_Witness ==
    /\ Evaluated
    /\ ~pair_states[cur].is_cointegrated
    /\ signal.signal = "sell_spread"
    /\ signal.metadata.is_cointegrated = FALSE

\* C23: check_stop_loss is direction-aware: it is true exactly when the entry
\* z-score is positive and the current z-score is above stop_loss_z, or the
\* entry z-score is negative and the current z-score is below -stop_loss_z;
\* with a zero entry z-score it is false for every current z-score, and a
\* move beyond the stop level on the side opposite to the entry never triggers.
C23_StopLossDirectionAware ==
    \A current_zscore \in ZScores, entry_zscore \in ZScores :
        /\ check_stop_loss(current_zscore, entry_zscore)
             <=> \/ entry_zscore > 0 /\ current_zscore > stop_loss_z
                 \/ entry_zscore < 0 /\ current_zscore < -stop_loss_z
        /\ entry_zscore = 0 => ~check_stop_loss(current_zscore, entry_zscore)
        /\ (entry_zscore > 0 /\ current_zscore < -stop_loss_z)
             => ~check_stop_loss(current_zscore, entry_zscore)
        /\ (entry_zscore < 0 /\ current_zscore > stop_loss_z)
             => ~check_stop_loss(current_zscore, entry_zscore)

\* A short-spread position (positive entry z-score) was evaluated with the
\* z-score beyond the stop level on the negative side, and was held.
C23_Witness ==
    /\ Evaluated
    /\ Held
    /\ SnapCorrelation >= correlation_threshold
    /\ PositionOf(pair_states, cur)[1].entry_zscore > 0
    /\ SnapZ < -stop_loss_z
    /\ signal.signal = "hold"

\* A position fraction the specification accepts: in (0, 1].
ValidFraction(x) == RGt(x, RZero) /\ ~RGt(x, RInt(1))

\* C24: the position size is min(balance * fraction, balance *
\* max_position_fraction) and never negative, for every balance the execution
\* path can pass; a fraction or a maximum fraction outside (0,1] is rejected,
\* so no component is ever constructed from one.
C24_PositionSizeBounded ==
    pc # "new" =>
        /\ ValidFraction(config.position_size)
        /\ ValidFraction(config.max_position)
        /\ \A account_balance \in Balances :
            /\ calculate_position_size(account_balance)
                 = RMin(RMul(RInt(account_balance), config.position_size),
                        RMul(RInt(account_balance), config.max_position))
            /\ ~RGt(RZero, calculate_position_size(account_balance))

\* C25: a failed exchange call during a pair's cycle aborts that pair's
\* execution: no order leg is submitted for the pair after the failed call.
\* The second leg is submitted only when the submission of the first one did
\* not fail, and no leg at all when a price lookup failed.
C25_GatewayFailureAborts ==
    [][/\ (pc = "leg2" /\ pc' = "settle") => frame.order1_result # None
       /\ (tickers' # None /\ (tickers'[1] = None \/ tickers'[2] = None))
            => pc' \notin {"leg1", "leg2"}]_vars

\* C26: a pair's position field, when not null, has a consistent direction:
\* quantity1 > 0 with entry_zscore > 0 (opened by 'sell_spread') or
\* quantity1 < 0 with entry_zscore < 0 (opened by 'buy_spread'), so the
\* stop-loss side matches the side of the entry.
C26_PairStateDirection ==
    \A p \in DOMAIN pair_states :
        LET position == PositionOf(pair_states, p)
        IN  position # None =>
                \/ RGt(position[1].quantity1, RZero) /\ position[1].entry_zscore > 0
                \/ RGt(RZero, position[1].quantity1) /\ position[1].entry_zscore < 0

\* C30: every order leg submitted by execute_signal has a strictly positive
\* quantity and a side resolved from the sign of the adjusted quantity: a
\* 'sell_spread' execution buys asset1 and sells asset2, a 'buy_spread'
\* execution sells asset1 and buys asset2, for every account balance.
C30_LegsPositiveAndSided ==
    pc \in {"leg1", "leg2"} =>
        /\ RGt(RAbs(frame.quantity1), RZero)
        /\ RGt(RAbs(frame.quantity2), RZero)
        /\ (frame.side1 = "buy") <=> RGt(frame.quantity1, RZero)
        /\ (frame.side2 = "buy") <=> RGt(frame.quantity2, RZero)
        /\ frame.signal_type = "sell_spread"
             => frame.side1 = "buy" /\ frame.side2 = "sell"
        /\ frame.signal_type = "buy_spread"
             => frame.side1 = "sell" /\ frame.side2 = "buy"

\* A quotient that is the number zero, and one that is the number one.
IsZero(z) == z.num = RZero /\ z.radicand # RZero
IsOne(z) == RGt(z.num, RZero) /\ RMul(z.num, z.num) = z.radicand

AllEqual(series) == \A i, j \in 1..Len(series) : series[i] = series[j]

\* Mean and variance of a series, the variance as E[x^2] - E[x]^2.
MeanOf(series) == RDiv(RSum(series), RInt(Len(series)))
VarianceOf(series) ==
    RAdd(RDiv(RSum([i \in 1..Len(series) |-> RMul(series[i], series[i])]),
              RInt(Len(series))),
         RNeg(RMul(MeanOf(series), MeanOf(series))))

Returned(fn) == pc = "returned" /\ frame.fn = fn

\* C27: calculate_zscore returns one z-score per input point; with no window
\* (or a window of at least the length) each value is (x - mean)/std over the
\* full series, so the values sum to 0; wherever the reference standard
\* deviation is 0 the z-score is 0, never the outcome of a division by zero;
\* the scalar current z-score of calculate_pair_statistics is likewise 0 when
\* the spread's standard deviation is 0.
C27_ZScorePerPoint ==
    /\ Returned("calculate_zscore") =>
        LET series == frame.series
            window == frame.window
            zscores == result[1]
            n == Len(series)
        IN  /\ Len(zscores) = n
            /\ \A i \in 1..n : zscores[i].radicand # RZero
            /\ (n > 0 /\ (window = None \/ window[1] >= n)) =>
                IF AllEqual(series)
                THEN \A i \in 1..n : IsZero(zscores[i])
                ELSE /\ \A i \in 1..n :
                          /\ zscores[i].num = RAdd(series[i], RNeg(MeanOf(series)))
                          /\ zscores[i].radicand = VarianceOf(series)
                     /\ RSum([i \in 1..n |-> zscores[i].num]) = RZero
            /\ (window # None /\ window[1] < n) =>
                \A i \in (window[1] + 1)..n :
                    AllEqual(SubSeq(series, i - window[1], i - 1)) => IsZero(zscores[i])
    /\ (Returned("calculate_pair_statistics") /\ "spread_var" \in DOMAIN result[1]) =>
        /\ result[1].current_zscore.radicand # RZero
        /\ result[1].spread_var = RZero => IsZero(result[1].current_zscore)

\* calculate_zscore was called with no window on a constant series of two
\* points or more, and returned zeros.
C27_Witness ==
    /\ Returned("calculate_zscore")
    /\ frame.window = None
    /\ Len(frame.series) >= 2
    /\ AllEqual(frame.series)
    /\ \A i \in 1..Len(frame.series) : IsZero(result[1][i])

\* price2 = k * price1 with price1 not constant, on equal lengths of 2 or more.
Linear(price1, price2, k) ==
    /\ Len(price1) = Len(price2)
    /\ Len(price1) >= 2
    /\ ~AllEqual(price1)
    /\ \A i \in 1..Len(price1) : price2[i] = RMul(RInt(k), price1[i])

ExamplePrice1 == <<RInt(1), RInt(2), RInt(3), RInt(4), RInt(5)>>
ExamplePrice2 == <<RInt(2), RInt(4), RInt(6), RInt(8), RInt(10)>>

\* C28: for price2 = k * price1 with k > 0 and price1 not constant (equal
\* lengths of 2 or more) calculate_hedge_ratio returns k and
\* calculate_correlation returns 1, so that the spread price2 - hedge_ratio *
\* price1 is identically 0; [1,2,3,4,5] and [2,4,6,8,10] give 2 and 1.
C28_ExactLinearRelation ==
    /\ calculate_hedge_ratio(ExamplePrice1, ExamplePrice2, TRUE) = RInt(2)
    /\ IsOne(calculate_correlation(ExamplePrice1, ExamplePrice2))
    /\ (pc = "returned" /\ "price1" \in DOMAIN frame) =>
        \A k \in HedgeRatios :
            Linear(frame.price1, frame.price2, k) =>
                /\ frame.fn = "calculate_hedge_ratio" => result[1] = RInt(k)
                /\ frame.fn = "calculate_correlation" => IsOne(result[1])
                /\ (frame.fn = "calculate_spread"
                      /\ frame.hedge_ratio
                           = calculate_hedge_ratio(frame.price1, frame.price2, TRUE))
                     => \A i \in 1..Len(result[1]) : result[1][i] = RZero
                /\ (frame.fn = "calculate_pair_statistics"
                      /\ "hedge_ratio" \in DOMAIN result[1])
                     => /\ result[1].hedge_ratio = RInt(k)
                        /\ IsOne(result[1].correlation)
                        /\ result[1].spread_mean = RZero
                        /\ result[1].spread_var = RZero
                        /\ result[1].current_spread = RZero

\* The hedge ratio of three prices on the line price2 = 2 * price1 was asked
\* for, and 2 came back.
C28_Witness ==
    /\ Returned("calculate_hedge_ratio")
    /\ Len(frame.price1) = 3
    /\ Linear(frame.price1, frame.price2, 2)
    /\ result = Some(RInt(2))

\* C29: the batch history fetch is a pure fan-out/fan-in: it returns only
\* after every per-symbol fetch has completed; its result has exactly one entry
\* per requested symbol whatever the completion order; a symbol whose fetch
\* failed has an empty entry and the other entries are what their own fetches
\* returned; no ledger, order or PairState changes while fetches are in flight.
C29_FanOutFanIn ==
    [][/\ pc = "gathering" => UNCHANGED <<pair_states, positions, orders>>
       /\ (pc = "gathering" /\ pc' = "returned") =>
            LET symbols == frame.symbols
                results == frame.results
                n == Len(symbols)
                unique(i) == \A j \in 1..n : symbols[j] = symbols[i] => j = i
            IN  /\ \A i \in 1..n : results[i] # None
                /\ DOMAIN result'[1] = {symbols[i] : i \in 1..n}
                /\ \A i \in 1..n : unique(i) =>
                    /\ result'[1][symbols[i]] = results[i][1].df
                    /\ results[i][1].raised => result'[1][symbols[i]] = <<>>
                    /\ ~results[i][1].raised => result'[1][symbols[i]] # <<>>]_vars

\* A batch of two symbols returned: the fetch of the second one failed, that
\* of the first one succeeded.
C29_Witness ==
    /\ pc = "returned" /\ frame # None /\ frame.fn = "fetch_multiple_ohlcv"
    /\ Len(frame.symbols) = 2
    /\ frame.symbols[1] # frame.symbols[2]
    /\ frame.results[2][1].raised
    /\ ~frame.results[1][1].raised
    /\ result[1][frame.symbols[2]] = <<>>
    /\ result[1][frame.symbols[1]] # <<>>

\* C31: in the polling loop the ticker lookups and the two order legs of a
\* pair's execution are placed on the asset1 and asset2 symbols of the pair
\* configuration that produced the signal.
C31_OrdersOnConfiguredAssets ==
    pc \in {"leg1", "leg2"} =>
        /\ frame.asset1 = PairConfig[frame.pair_name].asset1
        /\ frame.asset2 = PairConfig[frame.pair_name].asset2

\* C32: a close flattens what was opened: each closing leg's submitted
\* quantity equals the absolute quantity of the corresponding leg recorded in
\* the ledger Position, with the opposite side.
C32_CloseFlattens ==
    (/\ pc \in {"leg1", "leg2"}
     /\ frame.signal_type = "close"
     /\ has_position(positions, frame.pair_name)) =>
        LET position == positions[frame.pair_name]
        IN  /\ RAbs(frame.quantity1) = RAbs(position.quantity1)
            /\ RAbs(frame.quantity2) = RAbs(position.quantity2)
            /\ frame.side1 = SideOf(RNeg(position.quantity1))
            /\ frame.side2 = SideOf(RNeg(position.quantity2))

\* C33: at the end of every pair's processing the pair's PairState position is
\* non-null exactly when the ledger holds a non-closed Position for the pair,
\* and then their quantity1, quantity2 and entry_zscore are equal.
C33_SignalStateMatchesLedger ==
    pc = "idle" =>
        \A p \in Pairs :
            /\ PositionOf(pair_states, p) # None <=> has_position(positions, p)
            /\ (PositionOf(pair_states, p) # None /\ has_position(positions, p)) =>
                /\ PositionOf(pair_states, p)[1].quantity1 = positions[p].quantity1
                /\ PositionOf(pair_states, p)[1].quantity2 = positions[p].quantity2
                /\ PositionOf(pair_states, p)[1].entry_zscore = positions[p].entry_zscore

\* C34: execute_signal returns success=True exactly when both legs were filled
\* on the exchange: when both place_market_order calls returned a fill the
\* result is success=True and the ledger update (open or close) has been
\* applied, whatever the fill payload; when a leg failed it is success=False.
C34_SuccessIffBothFilled ==
    (pc = "returned" /\ frame # None) =>
        LET filled == frame.order1_result # None /\ frame.order2_result # None
        IN  /\ result # None
            /\ result[1].success <=> filled
            /\ (filled /\ frame.signal_type \in {"buy_spread", "sell_spread"})
                => has_position(positions, frame.pair_name)
            /\ (filled /\ frame.signal_type = "close"
                  /\ frame.pair_name \in DOMAIN positions)
                => positions[frame.pair_name].is_closed

\* C35: when a pair with an open position is evaluated on an available
\* snapshot with correlation at or above the threshold and the stop-loss or
\* the convergence condition holds, the signal is 'close'; and when both
\* prices were available and both closing legs filled, the pair's processing
\* ends with the ledger Position closed and the PairState position null.
C35_ExitCompletes ==
    [][/\ (/\ pc = "idle" /\ PositionOf(pair_states, cur) # None
           /\ pair_states' # pair_states
           /\ ~LowCorrelation(pair_states', cur)
           /\ ExitDue(pair_states', cur))
          => (pc' = "signalled" /\ signal'.signal = "close")
       /\ (/\ pc = "returned" /\ pc' = "idle" /\ frame # None
           /\ frame.signal_type = "close"
           /\ frame.order1_result # None /\ frame.order2_result # None
           /\ cur \in DOMAIN positions)
          => (/\ positions'[cur].is_closed
              /\ PositionOf(pair_states', cur) = None)]_vars

\* C36: the quantities recorded in a Position opened by execute_signal equal,
\* in magnitude, the quantities the exchange reported as filled for the two
\* legs, also when it filled less than was requested.
C36_PositionHoldsFilledQuantities ==
    [][(/\ pc = "book" /\ frame.signal_type \in {"buy_spread", "sell_spread"}
        /\ ~has_position(positions, frame.pair_name))
       => /\ Some(RAbs(positions'[frame.pair_name].quantity1))
               = orders[frame.order_id].filled_quantity1
          /\ Some(RAbs(positions'[frame.pair_name].quantity2))
               = orders[frame.order_id].filled_quantity2]_vars

\* The pnl realized by the Positions closed in this step.
RealizedNow ==
    SumPnl(positions',
           {p \in DOMAIN positions' :
               /\ positions'[p].is_closed
               /\ p \in DOMAIN positions => ~positions[p].is_closed})

\* C37: realized PnL is never lost: get_total_pnl grows by the pnl of each
\* Position as it is closed and changes in no other way, so it is the sum of
\* the realized pnl of every Position ever closed, re-opened pairs included.
C37_RealizedPnlNeverLost ==
    [][get_total_pnl(positions') = RAdd(get_total_pnl(positions), RealizedNow)]_vars

\* C38: a Position that is not closed has null exit prices and exit time and
\* pnl 0, and a closed one has all three set; a close that fails part-way
\* leaves the Position's fields as they were.
C38_ExitFieldsFollowClosed ==
    \A p \in DOMAIN positions :
        IF positions[p].is_closed
        THEN /\ positions[p].exit_price1 # None
             /\ positions[p].exit_price2 # None
             /\ positions[p].exit_timestamp # None
        ELSE /\ positions[p].exit_price1 = None
             /\ positions[p].exit_price2 = None
             /\ positions[p].exit_timestamp = None
             /\ positions[p].pnl = RZero

\* The PairState of a pair, None when the strategy has none.
PairStateOf(ps, p) == IF p \in DOMAIN ps THEN Some(ps[p]) ELSE None
LedgerPositionOf(pos, p) == IF p \in DOMAIN pos THEN Some(pos[p]) ELSE None

\* C39: evaluating, executing and updating one pair leaves unchanged the
\* PairState, the ledger Position and the existing Orders of every other pair.
C39_PairIndependence ==
    [][\A other \in Pairs : other # cur =>
        /\ PairStateOf(pair_states', other) = PairStateOf(pair_states, other)
        /\ LedgerPositionOf(positions', other) = LedgerPositionOf(positions, other)
        /\ Len(orders') >= Len(orders)
        /\ \A i \in DOMAIN orders :
            orders[i].pair_name = other => orders'[i] = orders[i]]_vars

\* The second pair was executed with success while the first pair holds a
\* snapshot, a ledger Position and an Order of its own.
C39_Witness ==
    /\ pc = "returned" /\ cur = PairOrder[2]
    /\ result # None /\ result[1].success
    /\ PositionOf(pair_states, PairOrder[1]) # None
    /\ has_position(positions, PairOrder[1])
    /\ has_position(positions, PairOrder[2])
    /\ \E i \in DOMAIN orders : orders[i].pair_name = PairOrder[1]

====
